---- MODULE Spec2Model ----
(***************************************************************************)
(* B+Tree of src/src/btree.h (class BTree, second half of the file) and    *)
(* src/src/btree.cpp (lines 1420-2461): a heap of nodes, the root pointer, *)
(* the entry counter, and the public operations insert / remove with the   *)
(* private helpers they call.  Queries (search, range, iteration) are      *)
(* operators over the heap.                                                *)
(*                                                                         *)
(* Indices are 0-based as in the source; At(s, i) reads element i.         *)
(***************************************************************************)
EXTENDS Integers, Sequences, FiniteSets, TLC

\* ---------------------------------------------------------------- bounds
\* The source fixes s_CAPACITY = 32 (btree.h:317).  The model keeps every
\* formula of the source in terms of s_CAPACITY and runs it with a small
\* value, so that splits, borrows and merges happen with a handful of keys.
s_CAPACITY == 2
MaxKey == 3
MaxVal == 2
MaxNodes == 6
MaxEntries == 6
MaxDeficit == 1
MaxCount == 3
MaxDeepKey == 10
DeepFill == 8
MaxSteps == 3
MaxCalls == 5
MaxWrites == 2
MaxRemoves == 6

s_MAX_KEYS == 2 * s_CAPACITY - 1
Keys == 1..MaxKey
Values == 1..MaxVal
NULL == 0

VARIABLES
    nodes,     \* the heap: node id -> Node, defined on the allocated ids
    m_Root,    \* BTree::m_Root
    m_Size,    \* BTree::m_Size (size_t; see SizeDec)
    ref,       \* reference ordered map driven side by side (0 = no entry)
    last,      \* the last public call: operation, arguments, returned value
    budget     \* calls the bounded driver of SpecDeep may still make

vars == <<nodes, m_Root, m_Size, ref, last, budget>>

\* ------------------------------------------------------- sequence helpers
At(s, i) == s[i + 1]
InsertAt(s, i, x) == SubSeq(s, 1, i) \o <<x>> \o SubSeq(s, i + 1, Len(s))
EraseAt(s, i) == SubSeq(s, 1, i) \o SubSeq(s, i + 2, Len(s))
Front(s) == s[1]
Back(s) == s[Len(s)]
PopBack(s) == SubSeq(s, 1, Len(s) - 1)

less(a, b) == a < b

\* Number of leading elements of ks that are less than key: the index at
\* which the source's linear scans stop, and std::lower_bound's result.
FirstNotLess(ks, key) ==
    CHOOSE i \in 0..Len(ks) :
        /\ \A j \in 0..(i - 1) : less(At(ks, j), key)
        /\ (i < Len(ks) => ~less(At(ks, i), key))

\* std::upper_bound: index of the first element that key is less than.
UpperBound(ks, key) ==
    CHOOSE i \in 0..Len(ks) :
        /\ \A j \in 0..(i - 1) : ~less(key, At(ks, j))
        /\ (i < Len(ks) => less(key, At(ks, i)))

EntryKeys(ents) == [j \in 1..Len(ents) |-> ents[j][1]]

\* ------------------------------------------------------------------ nodes
LeafNode(ents, next, prev) ==
    [isLeaf |-> TRUE, keys |-> <<>>, children |-> <<>>, entries |-> ents,
     nextLeaf |-> next, prevLeaf |-> prev]

InternalNode(ks, cs) ==
    [isLeaf |-> FALSE, keys |-> ks, children |-> cs, entries |-> <<>>,
     nextLeaf |-> NULL, prevLeaf |-> NULL]

\* new Node(...): the lowest address not in use.
NewNode(h) ==
    CHOOSE n \in 1..(Cardinality(DOMAIN h) + 1) :
        /\ n \notin DOMAIN h
        /\ \A m \in 1..(n - 1) : m \in DOMAIN h

Alloc(h, n, rec) == [x \in DOMAIN h \cup {n} |-> IF x = n THEN rec ELSE h[x]]
Delete(h, n) == [x \in DOMAIN h \ {n} |-> h[x]]

Count(h, n) == IF h[n].isLeaf THEN Len(h[n].entries) ELSE Len(h[n].keys)

\* ------------------------------------------------------------- splitChild
\* splitChild with new Node(true) for the sibling of an internal child: the
\* sibling takes the keys and children but is flagged a leaf.
splitChildSiblingLeaf(h, parent, index) ==
    LET child == At(h[parent].children, index)
        sibling == NewNode(h)
    IN  IF h[child].isLeaf
        THEN LET ents == h[child].entries
                 moved == SubSeq(ents, s_CAPACITY + 1, Len(ents))
                 oldNext == h[child].nextLeaf
                 promoteKey == Front(moved)[1]
                 h1 == Alloc(h, sibling, LeafNode(moved, oldNext, NULL))
                 h2 == [h1 EXCEPT ![child].entries = SubSeq(ents, 1, s_CAPACITY)]
                 h3 == IF oldNext # NULL
                       THEN [h2 EXCEPT ![oldNext].prevLeaf = sibling]
                       ELSE h2
                 h4 == [h3 EXCEPT ![child].nextLeaf = sibling,
                                  ![sibling].prevLeaf = child]
             IN  [h4 EXCEPT ![parent].keys = InsertAt(@, index, promoteKey),
                            ![parent].children = InsertAt(@, index + 1, sibling)]
        ELSE LET mid == s_CAPACITY - 1
                 ks == h[child].keys
                 cs == h[child].children
                 medianKey == At(ks, mid)
                 h1 == Alloc(h, sibling,
                             [InternalNode(SubSeq(ks, mid + 2, Len(ks)),
                                           SubSeq(cs, mid + 2, Len(cs)))
                                EXCEPT !.isLeaf = TRUE])
                 h2 == [h1 EXCEPT ![child].keys = SubSeq(ks, 1, mid),
                                  ![child].children = SubSeq(cs, 1, mid + 1)]
             IN  [h2 EXCEPT ![parent].keys = InsertAt(@, index, medianKey),
                            ![parent].children = InsertAt(@, index + 1, sibling)]

\* splitChild with the leaf's mid one entry lower: the left leaf keeps C-1
\* entries and the sibling receives C.
splitChildLowerMid(h, parent, index) ==
    LET child == At(h[parent].children, index)
        sibling == NewNode(h)
    IN  IF h[child].isLeaf
        THEN LET ents == h[child].entries
                 moved == SubSeq(ents, s_CAPACITY, Len(ents))
                 oldNext == h[child].nextLeaf
                 promoteKey == Front(moved)[1]
                 h1 == Alloc(h, sibling, LeafNode(moved, oldNext, NULL))
                 h2 == [h1 EXCEPT ![child].entries = SubSeq(ents, 1, s_CAPACITY - 1)]
                 h3 == IF oldNext # NULL
                       THEN [h2 EXCEPT ![oldNext].prevLeaf = sibling]
                       ELSE h2
                 h4 == [h3 EXCEPT ![child].nextLeaf = sibling,
                                  ![sibling].prevLeaf = child]
             IN  [h4 EXCEPT ![parent].keys = InsertAt(@, index, promoteKey),
                            ![parent].children = InsertAt(@, index + 1, sibling)]
        ELSE LET mid == s_CAPACITY - 1
                 ks == h[child].keys
                 cs == h[child].children
                 medianKey == At(ks, mid)
                 h1 == Alloc(h, sibling,
                             InternalNode(SubSeq(ks, mid + 2, Len(ks)),
                                          SubSeq(cs, mid + 2, Len(cs))))
                 h2 == [h1 EXCEPT ![child].keys = SubSeq(ks, 1, mid),
                                  ![child].children = SubSeq(cs, 1, mid + 1)]
             IN  [h2 EXCEPT ![parent].keys = InsertAt(@, index, medianKey),
                            ![parent].children = InsertAt(@, index + 1, sibling)]

splitChild(h, parent, index) ==
    LET child == At(h[parent].children, index)
        sibling == NewNode(h)
    IN  IF h[child].isLeaf
        THEN LET ents == h[child].entries
                 moved == SubSeq(ents, s_CAPACITY + 1, Len(ents))
                 oldNext == h[child].nextLeaf
                 promoteKey == Front(moved)[1]
                 h1 == Alloc(h, sibling, LeafNode(moved, oldNext, NULL))
                 h2 == [h1 EXCEPT ![child].entries = SubSeq(ents, 1, s_CAPACITY)]
                 h3 == IF oldNext # NULL
                       THEN [h2 EXCEPT ![oldNext].prevLeaf = sibling]
                       ELSE h2
                 h4 == [h3 EXCEPT ![child].nextLeaf = sibling,
                                  ![sibling].prevLeaf = child]
             IN  [h4 EXCEPT ![parent].keys = InsertAt(@, index, promoteKey),
                            ![parent].children = InsertAt(@, index + 1, sibling)]
        ELSE LET mid == s_CAPACITY - 1
                 ks == h[child].keys
                 cs == h[child].children
                 medianKey == At(ks, mid)
                 h1 == Alloc(h, sibling,
                             InternalNode(SubSeq(ks, mid + 2, Len(ks)),
                                          SubSeq(cs, mid + 2, Len(cs))))
                 h2 == [h1 EXCEPT ![child].keys = SubSeq(ks, 1, mid),
                                  ![child].children = SubSeq(cs, 1, mid + 1)]
             IN  [h2 EXCEPT ![parent].keys = InsertAt(@, index, medianKey),
                            ![parent].children = InsertAt(@, index + 1, sibling)]

\* ---------------------------------------------------------- insertNonFull
RECURSIVE insertNonFull(_, _, _, _)
insertNonFull(h, node, key, value) ==
    IF h[node].isLeaf
    THEN LET ents == h[node].entries
             it == FirstNotLess(EntryKeys(ents), key)
         IN  IF /\ it # Len(ents)
                /\ ~less(key, At(ents, it)[1])
                /\ ~less(At(ents, it)[1], key)
             THEN [heap |-> [h EXCEPT ![node].entries[it + 1] = <<key, value>>],
                   inserted |-> FALSE]
             ELSE [heap |-> [h EXCEPT ![node].entries = InsertAt(@, it, <<key, value>>)],
                   inserted |-> TRUE]
    ELSE LET i == FirstNotLess(h[node].keys, key)
             child == At(h[node].children, i)
             childFull == Count(h, child) >= s_MAX_KEYS
             h1 == IF childFull THEN splitChild(h, node, i) ELSE h
             i1 == IF childFull /\ less(At(h1[node].keys, i), key) THEN i + 1 ELSE i
         IN  insertNonFull(h1, At(h1[node].children, i1), key, value)

\* An insert that never splits the root.
insertNoRootSplit(h, root, key, value) ==
    LET r == insertNonFull(h, root, key, value)
    IN  [heap |-> r.heap, root |-> root, inserted |-> r.inserted]

\* ----------------------------------------------------------------- insert
\* The heap, root and result of BTree::insert(key, value).
insert(h, root, key, value) ==
    LET rootFull == Count(h, root) >= s_MAX_KEYS
        newRoot == NewNode(h)
        h1 == IF rootFull
              THEN splitChild(Alloc(h, newRoot, InternalNode(<<>>, <<root>>)), newRoot, 0)
              ELSE h
        root1 == IF rootFull THEN newRoot ELSE root
        r == insertNonFull(h1, root1, key, value)
    IN  [heap |-> r.heap, root |-> root1, inserted |-> r.inserted]

\* ----------------------------------------------------------------- search
RECURSIVE Descend(_, _, _)
Descend(h, node, key) ==
    IF h[node].isLeaf THEN node
    ELSE Descend(h, At(h[node].children, FirstNotLess(h[node].keys, key)), key)

\* The value search(key) points at, or NULL for nullptr.
search(h, root, key) ==
    LET ents == h[Descend(h, root, key)].entries
        hit == {j \in 1..Len(ents) :
                  /\ ~less(ents[j][1], key) /\ ~less(key, ents[j][1])
                  /\ \A m \in 1..(j - 1) : ~less(key, ents[m][1])}
    IN  IF hit = {} THEN NULL
        ELSE ents[CHOOSE j \in hit : \A m \in hit : j <= m][2]

\* ------------------------------------------------------------ operator[]
\* thrown stands for std::out_of_range leaving the call.
operatorSubscript(h, root, key) ==
    LET p == search(h, root, key)
    IN  IF p # NULL THEN [thrown |-> FALSE, value |-> p]
        ELSE [thrown |-> TRUE, value |-> NULL]

\* ------------------------------------------------------ range(low, high)
RECURSIVE DescendUpper(_, _, _)
DescendUpper(h, n, low) ==
    IF h[n].isLeaf THEN n
    ELSE DescendUpper(h, At(h[n].children, UpperBound(h[n].keys, low)), low)

RECURSIVE Collect(_, _, _, _)
Collect(h, n, idx, high) ==
    IF n = NULL THEN <<>>
    ELSE IF idx < Len(h[n].entries)
    THEN IF less(high, At(h[n].entries, idx)[1])
         THEN <<>>
         ELSE <<[node |-> n, index |-> idx]>> \o Collect(h, n, idx + 1, high)
    ELSE Collect(h, h[n].nextLeaf, 0, high)

\* range(low, high) without the lower_bound inside the first leaf: the walk
\* starts at the leaf's first entry.
rangeFromLeafStart(h, root, low, high) ==
    Collect(h, DescendUpper(h, root, low), 0, high)

\* The entries range(low, high) points at, as (leaf, index) positions.
range(h, root, low, high) ==
    LET n == DescendUpper(h, root, low)
        idx == FirstNotLess(EntryKeys(h[n].entries), low)
    IN  Collect(h, n, idx, high)

\* ----------------------------------------------------- range(low, count)
RECURSIVE CollectCount(_, _, _, _)
CollectCount(h, n, idx, left) ==
    IF n = NULL \/ left = 0 THEN <<>>
    ELSE IF idx < Len(h[n].entries)
    THEN <<[node |-> n, index |-> idx]>> \o CollectCount(h, n, idx + 1, left - 1)
    ELSE CollectCount(h, h[n].nextLeaf, 0, left)

\* The entries range(low, count) points at, as (leaf, index) positions.
rangeCount(h, root, low, count) ==
    IF count = 0 THEN <<>>
    ELSE LET n == DescendUpper(h, root, low)
             idx == FirstNotLess(EntryKeys(h[n].entries), low)
         IN  CollectCount(h, n, idx, count)

\* --------------------------------------------------------------- Iterator
end == [node |-> NULL, index |-> 0]

\* --------------------------------------------- getPredecessor/getSuccessor
RECURSIVE RightmostLeaf(_, _)
RightmostLeaf(h, cur) ==
    IF h[cur].isLeaf THEN cur ELSE RightmostLeaf(h, Back(h[cur].children))

RECURSIVE LeftmostLeaf(_, _)
LeftmostLeaf(h, cur) ==
    IF h[cur].isLeaf THEN cur ELSE LeftmostLeaf(h, Front(h[cur].children))

getPredecessor(h, node, idx) ==
    Back(h[RightmostLeaf(h, At(h[node].children, idx))].entries)[1]

getSuccessor(h, node, idx) ==
    Front(h[LeftmostLeaf(h, At(h[node].children, idx + 1))].entries)[1]

\* ---------------------------------------------- begin, operator++, operator*
begin(h, root) == [node |-> LeftmostLeaf(h, root), index |-> 0]

Increment(h, it) ==
    IF it.node = NULL THEN it
    ELSE IF it.index + 1 >= Len(h[it.node].entries)
    THEN [node |-> h[it.node].nextLeaf, index |-> 0]
    ELSE [it EXCEPT !.index = @ + 1]

\* operator* indexes the leaf's entries without a check.  At an index the
\* leaf has no entry for (begin() of a tree whose first leaf is empty) it
\* reads storage that holds no entry; NoEntry stands for what it yields.
NoEntry == <<NULL, NULL>>

Deref(h, it) ==
    IF it.index < Len(h[it.node].entries)
    THEN At(h[it.node].entries, it.index)
    ELSE NoEntry

\* for (it = begin(); it != end(); ++it) collect *it
RECURSIVE Walk(_, _)
Walk(h, it) ==
    IF it = end THEN <<>>
    ELSE <<Deref(h, it)>> \o Walk(h, Increment(h, it))

Iterate(h, root) == Walk(h, begin(h, root))

\* ------------------------------------------------------------- operator--
\* The members of struct Node.
NodeMembers == {"internal", "leaf", "isLeaf", "nextLeaf", "prevLeaf"}

\* operator-- names n->children and n->entries, which struct Node does not
\* declare (they are members of its union's internal and leaf), so a program
\* that retreats an iterator has no build: the outcomes of a call form the
\* empty set.  Were the two names members of Node, the body would yield the
\* one outcome written below.
operatorDecrement(h, root, it) ==
    IF ~({"children", "entries"} \subseteq NodeMembers) THEN {}
    ELSE IF it.node = NULL
    THEN LET n == RightmostLeaf(h, root)
         IN  IF h[n].entries # <<>>
             THEN {[node |-> n, index |-> Len(h[n].entries) - 1]}
             ELSE {it}
    ELSE IF it.index > 0 THEN {[it EXCEPT !.index = @ - 1]}
    ELSE LET prev == h[it.node].prevLeaf
         IN  {[node |-> prev,
               index |-> IF prev # NULL THEN Len(h[prev].entries) - 1 ELSE 0]}

\* ------------------------------------------------ borrowFromPrev/FromNext
borrowFromPrev(h, node, idx) ==
    LET child == At(h[node].children, idx)
        left == At(h[node].children, idx - 1)
    IN  IF h[child].isLeaf
        THEN LET h1 == [h EXCEPT ![child].entries = <<Back(h[left].entries)>> \o @,
                                 ![left].entries = PopBack(@)]
             IN  [h1 EXCEPT ![node].keys[idx] = Front(h1[child].entries)[1]]
        ELSE [h EXCEPT ![child].keys = <<At(h[node].keys, idx - 1)>> \o @,
                       ![node].keys[idx] = Back(h[left].keys),
                       ![left].keys = PopBack(@),
                       ![child].children = <<Back(h[left].children)>> \o @,
                       ![left].children = PopBack(@)]

\* borrowFromNext that moves nothing.
borrowFromNextNothing(h, node, idx) == h

borrowFromNext(h, node, idx) ==
    LET child == At(h[node].children, idx)
        right == At(h[node].children, idx + 1)
    IN  IF h[child].isLeaf
        THEN LET h1 == [h EXCEPT ![child].entries = Append(@, Front(h[right].entries)),
                                 ![right].entries = Tail(@)]
             IN  [h1 EXCEPT ![node].keys[idx + 1] = Front(h1[right].entries)[1]]
        ELSE [h EXCEPT ![child].keys = Append(@, At(h[node].keys, idx)),
                       ![node].keys[idx + 1] = Front(h[right].keys),
                       ![right].keys = Tail(@),
                       ![child].children = Append(@, Front(h[right].children)),
                       ![right].children = Tail(@)]

\* ------------------------------------------------------------- mergeNodes
mergeNodes(h, node, idx) ==
    LET left == At(h[node].children, idx)
        right == At(h[node].children, idx + 1)
        rightNext == h[right].nextLeaf
        h1 == IF h[left].isLeaf
              THEN LET a == [h EXCEPT ![left].entries = @ \o h[right].entries,
                                      ![left].nextLeaf = rightNext]
                   IN  IF rightNext # NULL
                       THEN [a EXCEPT ![rightNext].prevLeaf = left]
                       ELSE a
              ELSE [h EXCEPT ![left].keys = Append(@, At(h[node].keys, idx)) \o h[right].keys,
                             ![left].children = @ \o h[right].children]
        h2 == [h1 EXCEPT ![node].children = EraseAt(@, idx + 1),
                         ![node].keys = EraseAt(@, idx)]
    IN  Delete(h2, right)

\* ------------------------------------------------------------------- fill
\* fill that neither borrows nor merges.
fillNothing(h, node, idx) == h

fill(h, node, idx) ==
    LET cs == h[node].children
        nkeys == Len(h[node].keys)
    IN  IF idx > 0 /\ Count(h, At(cs, idx - 1)) >= s_CAPACITY
        THEN borrowFromPrev(h, node, idx)
        ELSE IF idx < nkeys /\ Count(h, At(cs, idx + 1)) >= s_CAPACITY
        THEN borrowFromNext(h, node, idx)
        ELSE IF idx < nkeys
        THEN mergeNodes(h, node, idx)
        ELSE mergeNodes(h, node, idx - 1)

\* --------------------------------------------------------- removeFromNode
\* find_if + erase of case A1: the first entry whose key equals key.
EraseEntry(ents, key) ==
    LET hit == {j \in 1..Len(ents) : ~less(ents[j][1], key) /\ ~less(key, ents[j][1])}
    IN  IF hit = {} THEN ents
        ELSE EraseAt(ents, (CHOOSE j \in hit : \A m \in hit : j <= m) - 1)

\* On a leaf the function reads node->internal.keys, the member of the
\* union that is not the active one (a leaf holds leaf.entries), for its
\* index search and for the test of case A.  What that read yields is not
\* defined; aliasHit is the outcome of the case-A test on the leaf the
\* descent ends in: TRUE runs A1 (erase the entry if the leaf has one for
\* key), FALSE runs case B's early return.
RECURSIVE removeFromNode(_, _, _, _)
removeFromNode(h, node, key, aliasHit) ==
    IF h[node].isLeaf
    THEN IF aliasHit
         THEN [h EXCEPT ![node].entries = EraseEntry(@, key)]
         ELSE h
    ELSE LET ks == h[node].keys
             idx == FirstNotLess(ks, key)
         IN  IF idx < Len(ks) /\ ~less(key, At(ks, idx)) /\ ~less(At(ks, idx), key)
             THEN LET leftChild == At(h[node].children, idx)
                      rightChild == At(h[node].children, idx + 1)
                      leftCount == Count(h, leftChild)
                      rightCount == Count(h, rightChild)
                  IN  IF leftCount >= s_CAPACITY
                      THEN LET pred == getPredecessor(h, node, idx)
                           IN  removeFromNode([h EXCEPT ![node].keys[idx + 1] = pred],
                                              leftChild, pred, aliasHit)
                      ELSE IF rightCount >= s_CAPACITY
                      THEN LET succ == getSuccessor(h, node, idx)
                           IN  removeFromNode([h EXCEPT ![node].keys[idx + 1] = succ],
                                              rightChild, succ, aliasHit)
                      ELSE removeFromNode(mergeNodes(h, node, idx), leftChild, key, aliasHit)
             ELSE LET lastChild == (idx = Len(ks))
                      child == At(h[node].children, idx)
                      childCount == Count(h, child)
                      h1 == IF childCount < s_CAPACITY THEN fill(h, node, idx) ELSE h
                  IN  IF lastChild /\ idx > Len(h1[node].keys)
                      THEN removeFromNode(h1, At(h1[node].children, idx - 1), key, aliasHit)
                      ELSE removeFromNode(h1, At(h1[node].children, idx), key, aliasHit)

\* The calls of removeFromNode that remove(key) makes, each with its key
\* argument and the heap as it is at the call; the first is the call on the
\* root.
RECURSIVE removeFromNodePath(_, _, _)
removeFromNodePath(h, node, key) ==
    <<[heap |-> h, node |-> node, key |-> key]>> \o
    IF h[node].isLeaf THEN <<>>
    ELSE LET ks == h[node].keys
             idx == FirstNotLess(ks, key)
         IN  IF idx < Len(ks) /\ ~less(key, At(ks, idx)) /\ ~less(At(ks, idx), key)
             THEN LET leftChild == At(h[node].children, idx)
                      rightChild == At(h[node].children, idx + 1)
                  IN  IF Count(h, leftChild) >= s_CAPACITY
                      THEN LET pred == getPredecessor(h, node, idx)
                           IN  removeFromNodePath([h EXCEPT ![node].keys[idx + 1] = pred],
                                                  leftChild, pred)
                      ELSE IF Count(h, rightChild) >= s_CAPACITY
                      THEN LET succ == getSuccessor(h, node, idx)
                           IN  removeFromNodePath([h EXCEPT ![node].keys[idx + 1] = succ],
                                                  rightChild, succ)
                      ELSE removeFromNodePath(mergeNodes(h, node, idx), leftChild, key)
             ELSE LET lastChild == (idx = Len(ks))
                      child == At(h[node].children, idx)
                      h1 == IF Count(h, child) < s_CAPACITY THEN fill(h, node, idx) ELSE h
                  IN  IF lastChild /\ idx > Len(h1[node].keys)
                      THEN removeFromNodePath(h1, At(h1[node].children, idx - 1), key)
                      ELSE removeFromNodePath(h1, At(h1[node].children, idx), key)

\* ----------------------------------------------------------------- remove
\* m_Size is a size_t: --m_Size on 0 wraps to 2^64 - 1.  The model holds the
\* counter as the representative of its residue mod 2^64 that lies in
\* (-2^63, 2^63): -1 stands for 2^64 - 1, and so on.
SizeDec(n) == n - 1

\* The heap, root and result of BTree::remove(key).
remove(h, root, key, aliasHit) ==
    LET h1 == removeFromNode(h, root, key, aliasHit)
        collapse == ~h1[root].isLeaf /\ h1[root].keys = <<>>
    IN  [heap |-> IF collapse THEN Delete(h1, root) ELSE h1,
         root |-> IF collapse THEN Front(h1[root].children) ELSE root,
         ret |-> TRUE]

\* ------------------------------------------------------------------ state
Init ==
    /\ nodes = [n \in {1} |-> LeafNode(<<>>, NULL, NULL)]
    /\ m_Root = 1
    /\ m_Size = 0
    /\ ref = [k \in Keys |-> NULL]
    /\ last = [op |-> "none", key |-> NULL, value |-> NULL, ret |-> FALSE]
    /\ budget = 0

\* Entries of all leaves, by a walk over the children.
RECURSIVE SubtreeEntries(_, _)
SubtreeEntries(h, n) ==
    IF h[n].isLeaf THEN h[n].entries
    ELSE LET RECURSIVE cat(_)
             cat(i) == IF i > Len(h[n].children) THEN <<>>
                       ELSE SubtreeEntries(h, h[n].children[i]) \o cat(i + 1)
         IN  cat(1)

NumEntries(h, root) == Len(SubtreeEntries(h, root))

\* Addresses mean nothing beyond identity, and no address outlives a
\* mutating call in the caller's hands.  The state keeps the heap up to a
\* renaming of addresses: the live nodes in pre-order from the root, then
\* any node the root no longer reaches; a pointer to a freed node is kept
\* as Dangling.
RECURSIVE PreOrder(_, _)
PreOrder(h, n) ==
    IF h[n].isLeaf THEN <<n>>
    ELSE LET RECURSIVE cat(_)
             cat(i) == IF i > Len(h[n].children) THEN <<>>
                       ELSE PreOrder(h, h[n].children[i]) \o cat(i + 1)
         IN  <<n>> \o cat(1)

RECURSIVE Ascending(_)
Ascending(S) ==
    IF S = {} THEN <<>>
    ELSE LET m == CHOOSE x \in S : \A y \in S : x <= y
         IN  <<m>> \o Ascending(S \ {m})

Dangling == -1

Renamed(h, root) ==
    LET pre == PreOrder(h, root)
        order == pre \o Ascending(DOMAIN h \ {pre[i] : i \in 1..Len(pre)})
        to(p) == IF p = NULL THEN NULL
                 ELSE IF p \notin DOMAIN h THEN Dangling
                 ELSE CHOOSE i \in 1..Len(order) : order[i] = p
    IN  [n \in 1..Len(order) |->
            LET old == h[order[n]]
            IN  [isLeaf |-> old.isLeaf,
                 keys |-> old.keys,
                 children |-> [j \in 1..Len(old.children) |-> to(old.children[j])],
                 entries |-> old.entries,
                 nextLeaf |-> to(old.nextLeaf),
                 prevLeaf |-> to(old.prevLeaf)]]

Insert(key, value) ==
    LET r == insert(nodes, m_Root, key, value)
    IN  /\ Cardinality(DOMAIN r.heap) <= MaxNodes
        /\ NumEntries(r.heap, r.root) <= MaxEntries
        /\ nodes' = Renamed(r.heap, r.root)
        /\ m_Root' = 1
        /\ m_Size' = IF r.inserted THEN m_Size + 1 ELSE m_Size
        /\ ref' = [ref EXCEPT ![key] = value]
        /\ last' = [op |-> "insert", key |-> key, value |-> value, ret |-> r.inserted]
        /\ budget' = budget

Remove(key, aliasHit) ==
    LET r == remove(nodes, m_Root, key, aliasHit)
    IN  /\ NumEntries(r.heap, r.root) - SizeDec(m_Size) <= MaxDeficit
        /\ nodes' = Renamed(r.heap, r.root)
        /\ m_Root' = 1
        /\ m_Size' = SizeDec(m_Size)
        /\ ref' = [ref EXCEPT ![key] = NULL]
        /\ last' = [op |-> "remove", key |-> key, value |-> NULL, ret |-> r.ret]
        /\ budget' = budget

Index(key) ==
    LET r == operatorSubscript(nodes, m_Root, key)
    IN  /\ last' = [op |-> "index", key |-> key, value |-> r.value, ret |-> ~r.thrown]
        /\ UNCHANGED <<nodes, m_Root, m_Size, ref, budget>>

NextInsert == \E key \in Keys, value \in Values : Insert(key, value)

SpecInsert == Init /\ [][NextInsert]_vars

Next ==
    \/ \E key \in Keys, value \in Values : Insert(key, value)
    \/ \E key \in Keys, aliasHit \in BOOLEAN : Remove(key, aliasHit)
    \/ \E key \in Keys : Index(key)

Spec == Init /\ [][Next]_vars

\* The runs in which the read of removeFromNode on a leaf always takes the
\* outcome the function's comments intend (case A1): a subset of the runs
\* of Spec.
NextHit ==
    \/ \E key \in Keys, value \in Values : Insert(key, value)
    \/ \E key \in Keys : Remove(key, TRUE)

SpecHit == Init /\ [][NextHit]_vars

\* A bounded driver that reaches trees of height 3: it first inserts
\* 1..DeepFill in ascending order into the empty tree, then makes at most
\* MaxSteps further calls with keys of 1..MaxDeepKey.  The caps of Insert
\* and Remove do not apply; the budget bounds the run.
DeepKeys == 1..MaxDeepKey

InitDeep ==
    /\ nodes = [n \in {1} |-> LeafNode(<<>>, NULL, NULL)]
    /\ m_Root = 1
    /\ m_Size = 0
    /\ ref = [k \in DeepKeys |-> NULL]
    /\ last = [op |-> "none", key |-> NULL, value |-> NULL, ret |-> FALSE]
    /\ budget = DeepFill + MaxSteps

DeepInsert(key) ==
    LET r == insert(nodes, m_Root, key, 1)
    IN  /\ budget > 0
        /\ budget > MaxSteps => key = DeepFill + MaxSteps - budget + 1
        /\ nodes' = Renamed(r.heap, r.root)
        /\ m_Root' = 1
        /\ m_Size' = IF r.inserted THEN m_Size + 1 ELSE m_Size
        /\ ref' = [ref EXCEPT ![key] = 1]
        /\ last' = [op |-> "insert", key |-> key, value |-> 1, ret |-> r.inserted]
        /\ budget' = budget - 1

DeepRemove(key, aliasHit) ==
    LET r == remove(nodes, m_Root, key, aliasHit)
    IN  /\ budget > 0
        /\ budget <= MaxSteps
        /\ nodes' = Renamed(r.heap, r.root)
        /\ m_Root' = 1
        /\ m_Size' = SizeDec(m_Size)
        /\ ref' = [ref EXCEPT ![key] = NULL]
        /\ last' = [op |-> "remove", key |-> key, value |-> NULL, ret |-> r.ret]
        /\ budget' = budget - 1

NextDeep ==
    \/ \E key \in DeepKeys : DeepInsert(key)
    \/ \E key \in DeepKeys, aliasHit \in BOOLEAN : DeepRemove(key, aliasHit)

SpecDeep == InitDeep /\ [][NextDeep]_vars

\* ------------------------------------------------ read-only public calls
\* The entry search(key) points into, as a (leaf, index) position; end
\* stands for nullptr.
searchPos(h, root, key) ==
    LET n == Descend(h, root, key)
        ents == h[n].entries
        hit == {j \in 1..Len(ents) :
                  /\ ~less(ents[j][1], key) /\ ~less(key, ents[j][1])
                  /\ \A m \in 1..(j - 1) : ~less(key, ents[m][1])}
    IN  IF hit = {} THEN end
        ELSE [node |-> n, index |-> (CHOOSE j \in hit : \A m \in hit : j <= m) - 1]

\* A search that, like std::map::operator[], stores a default value for a
\* key it does not find.
SearchInserting(key) ==
    LET p == search(nodes, m_Root, key)
        r == insert(nodes, m_Root, key, 1)
    IN  /\ last' = [op |-> "search", key |-> key, value |-> p, ret |-> p # NULL]
        /\ nodes' = IF p = NULL THEN Renamed(r.heap, r.root) ELSE nodes
        /\ UNCHANGED <<m_Root, m_Size, ref, budget>>

Search(key) ==
    LET p == search(nodes, m_Root, key)
    IN  /\ last' = [op |-> "search", key |-> key, value |-> p, ret |-> p # NULL]
        /\ UNCHANGED <<nodes, m_Root, m_Size, ref, budget>>

Range(low, high) ==
    LET out == range(nodes, m_Root, low, high)
    IN  /\ last' = [op |-> "range", key |-> NULL, value |-> NULL, ret |-> out # <<>>]
        /\ UNCHANGED <<nodes, m_Root, m_Size, ref, budget>>

RangeCount(low, count) ==
    LET out == rangeCount(nodes, m_Root, low, count)
    IN  /\ last' = [op |-> "rangeCount", key |-> NULL, value |-> NULL, ret |-> out # <<>>]
        /\ UNCHANGED <<nodes, m_Root, m_Size, ref, budget>>

Size ==
    /\ last' = [op |-> "size", key |-> NULL, value |-> m_Size, ret |-> TRUE]
    /\ UNCHANGED <<nodes, m_Root, m_Size, ref, budget>>

Begin ==
    LET it == begin(nodes, m_Root)
    IN  /\ last' = [op |-> "begin", key |-> NULL, value |-> NULL, ret |-> it # end]
        /\ UNCHANGED <<nodes, m_Root, m_Size, ref, budget>>

End ==
    /\ last' = [op |-> "end", key |-> NULL, value |-> NULL, ret |-> TRUE]
    /\ UNCHANGED <<nodes, m_Root, m_Size, ref, budget>>

\* ------------------------------------------- writes through a reference
\* *p = value for the Value* p that points at position pos.
Assign(h, pos, value) ==
    [h EXCEPT ![pos.node].entries[pos.index + 1] = <<@[1], value>>]

\* *search(key) = value
WriteSearch(key, value) ==
    LET pos == searchPos(nodes, m_Root, key)
    IN  /\ budget > 0
        /\ budget <= MaxWrites
        /\ pos # end
        /\ nodes' = Assign(nodes, pos, value)
        /\ ref' = [ref EXCEPT ![key] = value]
        /\ last' = [op |-> "writeSearch", key |-> key, value |-> value, ret |-> TRUE]
        /\ budget' = budget - 1
        /\ UNCHANGED <<m_Root, m_Size>>

\* tree[key] = value
WriteIndex(key, value) ==
    LET r == operatorSubscript(nodes, m_Root, key)
        pos == searchPos(nodes, m_Root, key)
    IN  /\ budget > 0
        /\ budget <= MaxWrites
        /\ ~r.thrown
        /\ nodes' = Assign(nodes, pos, value)
        /\ ref' = [ref EXCEPT ![key] = value]
        /\ last' = [op |-> "writeIndex", key |-> key, value |-> value, ret |-> TRUE]
        /\ budget' = budget - 1
        /\ UNCHANGED <<m_Root, m_Size>>

\* *range(low, high)[i].second = value; the key written under is
\* *range(low, high)[i].first.
WriteRange(low, high, i, value) ==
    LET out == range(nodes, m_Root, low, high)
    IN  /\ budget > 0
        /\ budget <= MaxWrites
        /\ i < Len(out)
        /\ LET pos == At(out, i)
               key == At(nodes[pos.node].entries, pos.index)[1]
           IN  /\ nodes' = Assign(nodes, pos, value)
               /\ ref' = [ref EXCEPT ![key] = value]
               /\ last' = [op |-> "writeRange", key |-> key, value |-> value, ret |-> TRUE]
        /\ budget' = budget - 1
        /\ UNCHANGED <<m_Root, m_Size>>

\* ------------------------------------------------------------------- move
\* The calls insert makes to insertNonFull, each with the heap as it is at
\* the call: the last one is the call on the leaf, right before its write.
RECURSIVE insertNonFullPath(_, _, _)
insertNonFullPath(h, node, key) ==
    IF h[node].isLeaf THEN <<[heap |-> h, node |-> node]>>
    ELSE LET i == FirstNotLess(h[node].keys, key)
             child == At(h[node].children, i)
             childFull == Count(h, child) >= s_MAX_KEYS
             h1 == IF childFull THEN splitChild(h, node, i) ELSE h
             i1 == IF childFull /\ less(At(h1[node].keys, i), key) THEN i + 1 ELSE i
         IN  <<[heap |-> h, node |-> node]>>
             \o insertNonFullPath(h1, At(h1[node].children, i1), key)

insertPath(h, root, key) ==
    LET rootFull == Count(h, root) >= s_MAX_KEYS
        newRoot == NewNode(h)
        h1 == IF rootFull
              THEN splitChild(Alloc(h, newRoot, InternalNode(<<>>, <<root>>)), newRoot, 0)
              ELSE h
    IN  insertNonFullPath(h1, IF rootFull THEN newRoot ELSE root, key)

\* A pointer to the entry at pos, taken in heap h0, still points at that
\* entry in heap h1: the leaf is alive and its vector holds, up to and
\* including pos, what it held.  An erase or insert in front of pos, the
\* move of the entry to a sibling, or the destruction of the leaf end that.
Intact(h0, h1, pos) ==
    /\ pos.node \in DOMAIN h1
    /\ h1[pos.node].isLeaf
    /\ pos.index < Len(h1[pos.node].entries)
    /\ SubSeq(h1[pos.node].entries, 1, pos.index + 1)
         = SubSeq(h0[pos.node].entries, 1, pos.index + 1)

\* The heap, root, size and result of move(from, to).  value points into
\* the leaf; remove(from) runs before *value is read for insert(to, *value),
\* and insert reads it only at its leaf, after its splits.  When the
\* pointer is no longer Intact at that read, what the read yields is not
\* defined: stale is the value it yields (the entry that slid into the
\* slot, the bytes the erased entry left behind, freed storage).
move(h, root, size, from, to, aliasHit, stale) ==
    LET pos == searchPos(h, root, from)
        afterRemove(rm) ==
            LET path == insertPath(rm.heap, rm.root, to)
                atWrite == path[Len(path)].heap
                value == IF Intact(h, rm.heap, pos) /\ Intact(rm.heap, atWrite, pos)
                         THEN At(h[pos.node].entries, pos.index)[2]
                         ELSE stale
                ins == insert(rm.heap, rm.root, to, value)
            IN  [heap |-> ins.heap, root |-> ins.root,
                 size |-> IF ins.inserted THEN SizeDec(size) + 1 ELSE SizeDec(size),
                 ret |-> TRUE]
    IN  IF pos = end
        THEN [heap |-> h, root |-> root, size |-> size, ret |-> FALSE]
        ELSE CHOOSE r \in {afterRemove(rm) : rm \in {remove(h, root, from, aliasHit)}} : TRUE

Move(from, to, aliasHit, stale) ==
    \E r \in {move(nodes, m_Root, m_Size, from, to, aliasHit, stale)} :
        /\ budget > 0
        /\ budget <= MaxWrites
        /\ nodes' = Renamed(r.heap, r.root)
        /\ m_Root' = 1
        /\ m_Size' = r.size
        /\ ref' = IF r.ret
                  THEN [[ref EXCEPT ![from] = NULL] EXCEPT ![to] = ref[from]]
                  ELSE ref
        /\ last' = [op |-> "move", key |-> from, value |-> to, ret |-> r.ret]
        /\ budget' = budget - 1

\* A bounded driver over every public call: from the empty tree, at most
\* MaxCalls calls that write, of which the last MaxWrites may be writes
\* through a reference or moves and the others are inserts, with the
\* read-only calls in between at no cost.
InitPublic ==
    /\ nodes = [n \in {1} |-> LeafNode(<<>>, NULL, NULL)]
    /\ m_Root = 1
    /\ m_Size = 0
    /\ ref = [k \in Keys |-> NULL]
    /\ last = [op |-> "none", key |-> NULL, value |-> NULL, ret |-> FALSE]
    /\ budget = MaxCalls

PublicInsert(key, value) ==
    LET r == insert(nodes, m_Root, key, value)
    IN  /\ budget > 0
        /\ nodes' = Renamed(r.heap, r.root)
        /\ m_Root' = 1
        /\ m_Size' = IF r.inserted THEN m_Size + 1 ELSE m_Size
        /\ ref' = [ref EXCEPT ![key] = value]
        /\ last' = [op |-> "insert", key |-> key, value |-> value, ret |-> r.inserted]
        /\ budget' = budget - 1

NextPublic ==
    \/ \E key \in Keys, value \in Values : PublicInsert(key, value)
    \/ \E key \in Keys : Search(key)
    \/ \E low \in Keys, high \in Keys : Range(low, high)
    \/ \E low \in Keys, count \in 0..MaxCount : RangeCount(low, count)
    \/ Size
    \/ Begin
    \/ End
    \/ \E key \in Keys, value \in Values : WriteSearch(key, value)
    \/ \E key \in Keys, value \in Values : WriteIndex(key, value)
    \/ \E low \in Keys, high \in Keys, i \in 0..(MaxCount - 1), value \in Values :
          WriteRange(low, high, i, value)
    \/ \E from \in Keys, to \in Keys, aliasHit \in BOOLEAN, stale \in Values :
          Move(from, to, aliasHit, stale)

SpecPublic == InitPublic /\ [][NextPublic]_vars

\* The keys the leaves hold.
StoredKeys(h, root) ==
    {SubtreeEntries(h, root)[i][1] : i \in 1..NumEntries(h, root)}

\* A bounded driver that fills and empties a tree: it inserts 1..2C in
\* ascending order into the empty tree, then makes at most MaxRemoves calls
\* of remove, each with a key the tree stores at the call.
InitShrink ==
    /\ nodes = [n \in {1} |-> LeafNode(<<>>, NULL, NULL)]
    /\ m_Root = 1
    /\ m_Size = 0
    /\ ref = [k \in DeepKeys |-> NULL]
    /\ last = [op |-> "none", key |-> NULL, value |-> NULL, ret |-> FALSE]
    /\ budget = 2 * s_CAPACITY + MaxRemoves

ShrinkInsert(value) ==
    LET key == 2 * s_CAPACITY + MaxRemoves - budget + 1
        r == insert(nodes, m_Root, key, value)
    IN  /\ budget > MaxRemoves
        /\ nodes' = Renamed(r.heap, r.root)
        /\ m_Root' = 1
        /\ m_Size' = IF r.inserted THEN m_Size + 1 ELSE m_Size
        /\ ref' = [ref EXCEPT ![key] = value]
        /\ last' = [op |-> "insert", key |-> key, value |-> value, ret |-> r.inserted]
        /\ budget' = budget - 1

ShrinkRemove(key, aliasHit) ==
    LET r == remove(nodes, m_Root, key, aliasHit)
    IN  /\ budget > 0
        /\ budget <= MaxRemoves
        /\ key \in StoredKeys(nodes, m_Root)
        /\ nodes' = Renamed(r.heap, r.root)
        /\ m_Root' = 1
        /\ m_Size' = SizeDec(m_Size)
        /\ ref' = [ref EXCEPT ![key] = NULL]
        /\ last' = [op |-> "remove", key |-> key, value |-> NULL, ret |-> r.ret]
        /\ budget' = budget - 1

NextShrink ==
    \/ \E value \in Values : ShrinkInsert(value)
    \/ \E key \in DeepKeys, aliasHit \in BOOLEAN : ShrinkRemove(key, aliasHit)

SpecShrink == InitShrink /\ [][NextShrink]_vars

\* ================================================================ claims
\* Helpers of the statements below.
Stored(h, root, k) ==
    \E i \in 1..NumEntries(h, root) : SubtreeEntries(h, root)[i][1] = k

CountKey(h, root, k) ==
    Cardinality({i \in 1..NumEntries(h, root) : SubtreeEntries(h, root)[i][1] = k})

RECURSIVE ChainEntries(_, _)
ChainEntries(h, n) ==
    IF n = NULL THEN <<>> ELSE h[n].entries \o ChainEntries(h, h[n].nextLeaf)

Leaves(h) == {n \in DOMAIN h : h[n].isLeaf}

StrictlyAscending(ks) == \A i \in 1..(Len(ks) - 1) : less(ks[i], ks[i + 1])

\* The reference map's (key, value) pairs in ascending key order.
RECURSIVE RefPairsFrom(_, _)
RefPairsFrom(r, k) ==
    IF k > MaxKey THEN <<>>
    ELSE (IF r[k] = NULL THEN <<>> ELSE <<(<<k, r[k]>>)>>) \o RefPairsFrom(r, k + 1)

RefPairs(r) == RefPairsFrom(r, 1)

RangeEntries(h, root, low, high) ==
    LET r == range(h, root, low, high)
    IN  [i \in 1..Len(r) |-> At(h[r[i].node].entries, r[i].index)]

InRange(h, low, high) ==
    {p \in [node : Leaves(h), index : 0..(s_MAX_KEYS - 1)] :
        /\ p.index < Len(h[p.node].entries)
        /\ ~less(At(h[p.node].entries, p.index)[1], low)
        /\ ~less(high, At(h[p.node].entries, p.index)[1])}

\* C1: after any sequence of inserts on an empty tree, search(k) yields the
\* value of the latest insert(k, .) for every inserted key k (promoted
\* routing keys included) and not-found for every key never inserted.
C1_InsertSearchRoundTrip ==
    \A k \in Keys : search(nodes, m_Root, k) = ref[k]

\* C2: insert(k, v) returns true iff k was not stored right before the
\* call; size() grows by exactly 1 when it returns true and is unchanged
\* when it returns false.
C2_InsertReturn ==
    [][last'.op = "insert" =>
          /\ last'.ret <=> ~Stored(nodes, m_Root, last'.key)
          /\ last'.ret => m_Size' = m_Size + 1
          /\ ~last'.ret => m_Size' = m_Size]_vars

\* C3: insert(k, v2) on a tree that stores k leaves size() unchanged,
\* creates no further entry for k, and afterwards search(k) yields v2.
C3_InsertUpdates ==
    [][(last'.op = "insert" /\ Stored(nodes, m_Root, last'.key)) =>
          /\ m_Size' = m_Size
          /\ CountKey(nodes', m_Root', last'.key) = CountKey(nodes, m_Root, last'.key)
          /\ search(nodes', m_Root', last'.key) = last'.value]_vars

\* C4: remove(k) returns true iff k was stored right before the call;
\* size() drops by exactly 1 when k was stored, and when it was not,
\* remove returns false and size() is unchanged.
C4_RemoveReturn ==
    [][last'.op = "remove" =>
          /\ last'.ret <=> Stored(nodes, m_Root, last'.key)
          /\ Stored(nodes, m_Root, last'.key) => m_Size' = m_Size - 1
          /\ ~Stored(nodes, m_Root, last'.key) => m_Size' = m_Size]_vars

\* C5: remove(k) on a tree that stores k removes exactly the entry of k:
\* afterwards search(k) is not-found and search(j) is what it was for
\* every other stored key j.
C5_RemoveExactlyK ==
    [][(last'.op = "remove" /\ Stored(nodes, m_Root, last'.key)) =>
          /\ search(nodes', m_Root', last'.key) = NULL
          /\ \A j \in Keys \ {last'.key} :
                Stored(nodes, m_Root, j) =>
                    search(nodes', m_Root', j) = search(nodes, m_Root, j)]_vars

\* C6: remove(k) of a key that is not stored returns false and leaves the
\* tree as it was: the same nodes, routing keys, entries, links and size().
C6_RemoveAbsentNoOp ==
    [][(last'.op = "remove" /\ ~Stored(nodes, m_Root, last'.key)) =>
          /\ ~last'.ret
          /\ nodes' = nodes
          /\ m_Root' = m_Root
          /\ m_Size' = m_Size]_vars

\* C7: size() equals the number of entries held in all leaves, which
\* equals the number of entries a walk of the leaf chain visits.
C7_SizeCountsEntries ==
    /\ m_Size = NumEntries(nodes, m_Root)
    /\ m_Size = Len(ChainEntries(nodes, LeftmostLeaf(nodes, m_Root)))

\* C8: the entries of every leaf are strictly ascending by key, and no key
\* occurs in more than one entry of the tree.
C8_UniqueSortedKeys ==
    /\ \A n \in Leaves(nodes) : StrictlyAscending(EntryKeys(nodes[n].entries))
    /\ \A k \in Keys : CountKey(nodes, m_Root, k) <= 1

\* C9: run side by side with a reference ordered map, every insert and
\* remove returns what the reference returns (new key / key existed), and
\* after every call iterating begin() to end() yields exactly the
\* reference's (key, value) pairs in ascending key order.
C9_ReferenceMap ==
    [][/\ last'.op = "insert" => (last'.ret <=> ref[last'.key] = NULL)
       /\ last'.op = "remove" => (last'.ret <=> ref[last'.key] # NULL)
       /\ Iterate(nodes', m_Root') = RefPairs(ref')]_vars

\* C10: for low <= high, range(low, high) returns exactly the stored
\* entries with low <= key <= high, each once, in ascending key order.
C10_RangeInclusive ==
    \A low \in Keys, high \in Keys :
        ~less(high, low) =>
            LET r == range(nodes, m_Root, low, high)
            IN  /\ {r[i] : i \in 1..Len(r)} = InRange(nodes, low, high)
                /\ Len(r) = Cardinality(InRange(nodes, low, high))
                /\ StrictlyAscending(EntryKeys(RangeEntries(nodes, m_Root, low, high)))

\* Keys of what range(low, count) returns.
RangeCountKeys(h, root, low, count) ==
    LET r == rangeCount(h, root, low, count)
    IN  [i \in 1..Len(r) |-> At(h[r[i].node].entries, r[i].index)[1]]

Min(a, b) == IF a < b THEN a ELSE b

\* C11: range(low, n) returns exactly min(n, number of stored keys >= low)
\* entries, and they are the smallest stored keys >= low in ascending order.
C11_RangeCount ==
    \A low \in Keys, n \in 0..MaxCount :
        LET want == Ascending({k \in StoredKeys(nodes, m_Root) : ~less(k, low)})
        IN  RangeCountKeys(nodes, m_Root, low, n) = SubSeq(want, 1, Min(n, Len(want)))

\* C12: range(low, high) with low > high is empty, range(low, 0) is empty,
\* and range(low, n) with low greater than every stored key is empty.
C12_RangeEdges ==
    /\ \A low \in DOMAIN ref, high \in DOMAIN ref :
          less(high, low) => range(nodes, m_Root, low, high) = <<>>
    /\ \A low \in DOMAIN ref : rangeCount(nodes, m_Root, low, 0) = <<>>
    /\ \A low \in DOMAIN ref, n \in 1..MaxCount :
          (\A k \in StoredKeys(nodes, m_Root) : less(k, low)) =>
              rangeCount(nodes, m_Root, low, n) = <<>>

\* An internal root, two stored keys in the wrong order as bounds, and a
\* low above every stored key, with the three queries answered.
C12_Witness ==
    /\ ~nodes[m_Root].isLeaf
    /\ \E low \in DOMAIN ref, high \in DOMAIN ref :
          /\ less(high, low)
          /\ {low, high} \subseteq StoredKeys(nodes, m_Root)
          /\ range(nodes, m_Root, low, high) = <<>>
    /\ \E low \in DOMAIN ref :
          /\ \A k \in StoredKeys(nodes, m_Root) : less(k, low)
          /\ rangeCount(nodes, m_Root, low, 0) = <<>>
          /\ rangeCount(nodes, m_Root, low, 1) = <<>>

\* C13: operator[](k) yields the value search(k) yields when k is stored;
\* when k is absent it throws, creates no entry, and leaves size() and a
\* following search(k) as they were.
C13_IndexedAccess ==
    [][last'.op = "index" =>
          /\ Stored(nodes, m_Root, last'.key) =>
                /\ last'.ret
                /\ last'.value = search(nodes, m_Root, last'.key)
          /\ ~Stored(nodes, m_Root, last'.key) =>
                /\ ~last'.ret
                /\ ~Stored(nodes', m_Root', last'.key)
                /\ nodes' = nodes
                /\ m_Size' = m_Size
                /\ search(nodes', m_Root', last'.key) = NULL]_vars

\* C14: on a tree that holds no entries begin() equals end(), and the
\* iteration from begin() to end() visits nothing.
C14_EmptyBeginIsEnd ==
    NumEntries(nodes, m_Root) = 0 =>
        /\ begin(nodes, m_Root) = end
        /\ Iterate(nodes, m_Root) = <<>>

Reverse(q) == [i \in 1..Len(q) |-> q[Len(q) + 1 - i]]

\* Entries collected by retreating from position it down to begin().
RECURSIVE Backward(_, _, _)
Backward(h, root, it) ==
    IF it = begin(h, root) \/ operatorDecrement(h, root, it) = {}
    THEN <<Deref(h, it)>>
    ELSE <<Deref(h, it)>>
         \o Backward(h, root, CHOOSE o \in operatorDecrement(h, root, it) : TRUE)

\* C15: on a non-empty tree, retreating once from end() lands on the last
\* entry of the rightmost leaf, and retreating from there down to the first
\* entry collects the reverse of the walk from begin() to end().
C15_IteratorReversal ==
    NumEntries(nodes, m_Root) > 0 =>
        \E o \in operatorDecrement(nodes, m_Root, end) :
            /\ o.node = RightmostLeaf(nodes, m_Root)
            /\ o.index = Len(nodes[o.node].entries) - 1
            /\ Backward(nodes, m_Root, o) = Reverse(Iterate(nodes, m_Root))

\* ------------------------------------------------- structural invariants
\* The nodes the root reaches.
Reach(h, root) == {PreOrder(h, root)[i] : i \in 1..Len(PreOrder(h, root))}

\* Depths, counted from n at depth d, of the leaves under n.
RECURSIVE LeafDepths(_, _, _)
LeafDepths(h, n, d) ==
    IF h[n].isLeaf THEN {d}
    ELSE UNION {LeafDepths(h, h[n].children[i], d + 1) : i \in 1..Len(h[n].children)}

Height(h, root) == CHOOSE d \in LeafDepths(h, root, 1) :
                       \A e \in LeafDepths(h, root, 1) : e <= d

SubtreeKeys(h, n) == {SubtreeEntries(h, n)[i][1] : i \in 1..Len(SubtreeEntries(h, n))}

\* C16: every leaf is at the same depth from the root.
C16_Balanced ==
    Cardinality(LeafDepths(nodes, m_Root, 1)) = 1

\* A tree of height 3, grown by the split of an internal root, right after
\* a remove that left it at height 3.
C16_Witness ==
    /\ Height(nodes, m_Root) = 3
    /\ Cardinality(Leaves(nodes)) >= 4
    /\ last.op = "remove"

\* C17: every non-root node holds between C-1 and 2C-1 entries or routing
\* keys, and the root holds at most 2C-1.
C17_Occupancy ==
    \A n \in Reach(nodes, m_Root) :
        /\ Count(nodes, n) <= s_MAX_KEYS
        /\ n # m_Root => Count(nodes, n) >= s_CAPACITY - 1

\* After a remove on a tree of height 3: a non-root internal node and a
\* non-root leaf at the minimum C-1, and a leaf at the maximum 2C-1.
C17_Witness ==
    /\ Height(nodes, m_Root) = 3
    /\ last.op = "remove"
    /\ \E n \in Reach(nodes, m_Root) \ {m_Root} :
          ~nodes[n].isLeaf /\ Count(nodes, n) = s_CAPACITY - 1
    /\ \E n \in Reach(nodes, m_Root) \ {m_Root} :
          nodes[n].isLeaf /\ Count(nodes, n) = s_CAPACITY - 1
    /\ \E n \in Reach(nodes, m_Root) \ {m_Root} :
          nodes[n].isLeaf /\ Count(nodes, n) = s_MAX_KEYS

\* C18: every routing key keys[i] equals the smallest key stored in the
\* subtree of children[i+1].
C18_Separators ==
    \A n \in Reach(nodes, m_Root) :
        ~nodes[n].isLeaf =>
            \A i \in 1..Len(nodes[n].keys) :
                LET S == SubtreeKeys(nodes, nodes[n].children[i + 1])
                IN  /\ nodes[n].keys[i] \in S
                    /\ \A k \in S : ~less(k, nodes[n].keys[i])

\* C19: an internal node with K routing keys has K+1 children; every key
\* under children[i] is less than keys[i] and every key under children[i+1]
\* is greater than or equal to keys[i].
C19_SearchTreeOrder ==
    \A n \in Reach(nodes, m_Root) :
        ~nodes[n].isLeaf =>
            /\ Len(nodes[n].children) = Len(nodes[n].keys) + 1
            /\ \A i \in 1..Len(nodes[n].keys) :
                  /\ \A k \in SubtreeKeys(nodes, nodes[n].children[i]) :
                        less(k, nodes[n].keys[i])
                  /\ \A k \in SubtreeKeys(nodes, nodes[n].children[i + 1]) :
                        ~less(k, nodes[n].keys[i])

\* The leaves in the order the tree holds them, left to right.
LeavesInOrder(h, root) == SelectSeq(PreOrder(h, root), LAMBDA n : h[n].isLeaf)

\* The leaves met by following nextLeaf from n, for at most fuel hops; a
\* link to a destroyed leaf ends the walk with Dangling.
RECURSIVE Chain(_, _, _)
Chain(h, n, fuel) ==
    IF n = NULL \/ fuel = 0 THEN <<>>
    ELSE IF n \notin DOMAIN h THEN <<Dangling>>
    ELSE <<n>> \o Chain(h, h[n].nextLeaf, fuel - 1)

LeafChain(h, root) == Chain(h, LeftmostLeaf(h, root), Cardinality(DOMAIN h) + 1)

\* C20: following nextLeaf from the leftmost leaf visits every leaf once,
\* in ascending key order, and ends at null; prevLeaf is the inverse of
\* nextLeaf; the two ends are null; no link refers to a destroyed leaf.
C20_LeafChain ==
    LET chain == LeafChain(nodes, m_Root)
    IN  /\ chain = LeavesInOrder(nodes, m_Root)
        /\ \A n \in Leaves(nodes) :
              /\ nodes[n].nextLeaf \in Leaves(nodes) \cup {NULL}
              /\ nodes[n].prevLeaf \in Leaves(nodes) \cup {NULL}
        /\ \A a \in Leaves(nodes), b \in Leaves(nodes) :
              nodes[a].nextLeaf = b <=> nodes[b].prevLeaf = a
        /\ nodes[LeftmostLeaf(nodes, m_Root)].prevLeaf = NULL
        /\ nodes[RightmostLeaf(nodes, m_Root)].nextLeaf = NULL
        /\ StrictlyAscending(EntryKeys(ChainEntries(nodes, LeftmostLeaf(nodes, m_Root))))

\* ------------------------------------------------------ read-only calls
Queries == {"search", "range", "rangeCount", "size", "begin", "end"}

\* C21: search(k), range(low, high), range(low, count), size(), begin() and
\* end() leave the whole tree state unchanged: the same nodes, routing
\* keys, entries, leaf links and size() after the call as before it.
C21_QueriesReadOnly ==
    [][last'.op \in Queries =>
          /\ nodes' = nodes
          /\ m_Root' = m_Root
          /\ m_Size' = m_Size]_vars

\* A range query that returned entries of a tree with an internal root.
C21_Witness ==
    /\ last.op = "range"
    /\ last.ret
    /\ ~nodes[m_Root].isLeaf
    /\ m_Size = 2 * s_CAPACITY

\* ------------------------------------------------------------ tree height
\* C22: an insert increases the height by exactly one if and only if the
\* root held 2C-1 keys/entries when insert was called, and otherwise leaves
\* it unchanged; a remove decreases the height by at most one, and only by
\* replacing an internal root that has zero routing keys with its single
\* child; no other operation changes the height.
C22_HeightAtRoot ==
    [][/\ last'.op = "insert" =>
             Height(nodes', m_Root') =
                 IF Count(nodes, m_Root) >= s_MAX_KEYS
                 THEN Height(nodes, m_Root) + 1
                 ELSE Height(nodes, m_Root)
       /\ last'.op = "remove" =>
             \/ Height(nodes', m_Root') = Height(nodes, m_Root)
             \/ /\ Height(nodes', m_Root') = Height(nodes, m_Root) - 1
                /\ \E aliasHit \in BOOLEAN :
                      LET h1 == removeFromNode(nodes, m_Root, last'.key, aliasHit)
                      IN  /\ ~h1[m_Root].isLeaf
                          /\ h1[m_Root].keys = <<>>
                          /\ Len(h1[m_Root].children) = 1
                          /\ nodes' = Renamed(Delete(h1, m_Root), Front(h1[m_Root].children))
       /\ last'.op \notin {"insert", "remove", "move"} =>
             Height(nodes', m_Root') = Height(nodes, m_Root)]_vars

\* The full root of height 2 was split by an insert of a new key (height
\* 3), and the remove that followed collapsed the root (height 2 again).
C22_Witness ==
    /\ budget = MaxSteps - 2
    /\ last.op = "remove"
    /\ m_Size = DeepFill
    /\ Height(nodes, m_Root) = 2

\* --------------------------------------------------------------- splits
\* The shape splitChild leaves, in heap h1, of the full leaf child that
\* heap h0 holds at index i of parent.
LeafSplitShape(h0, h1, parent, i, child) ==
    LET old == h0[child].entries
        oldNext == h0[child].nextLeaf
        right == At(h1[parent].children, i + 1)
    IN  /\ At(h1[parent].children, i) = child
        /\ h1[right].isLeaf
        /\ Len(h1[child].entries) = s_CAPACITY
        /\ Len(h1[right].entries) = s_CAPACITY - 1
        /\ h1[child].entries \o h1[right].entries = old
        /\ \A a \in 1..s_CAPACITY, b \in 1..(s_CAPACITY - 1) :
              ~less(h1[right].entries[b][1], h1[child].entries[a][1])
        /\ At(h1[parent].keys, i) = Front(h1[right].entries)[1]
        /\ Len(h1[parent].keys) = Len(h0[parent].keys) + 1
        /\ h1[child].nextLeaf = right
        /\ h1[right].prevLeaf = child
        /\ h1[right].nextLeaf = oldNext
        /\ oldNext # NULL => h1[oldNext].prevLeaf = right

\* C23: whenever insert splits a full leaf at parent index i, the left leaf
\* keeps the C smallest entries, the new right sibling receives the other
\* C-1, the key put into the parent at i is the right sibling's first key
\* (the entry stays in the right leaf), and the sibling is linked between
\* the left leaf and its former successor; and 2C ascending keys inserted
\* into the empty tree give an internal root with the (C+1)-th key as its
\* one routing key over two linked leaves of C entries each.
C23_LeafSplit ==
    /\ \A key \in DOMAIN ref :
          LET path == insertPath(nodes, m_Root, key)
          IN  /\ (nodes[m_Root].isLeaf /\ Count(nodes, m_Root) >= s_MAX_KEYS) =>
                    LeafSplitShape(
                        Alloc(nodes, path[1].node, InternalNode(<<>>, <<m_Root>>)),
                        path[1].heap, path[1].node, 0, m_Root)
              /\ \A j \in 1..(Len(path) - 1) :
                    LET h0 == path[j].heap
                        parent == path[j].node
                        i == FirstNotLess(h0[parent].keys, key)
                        child == At(h0[parent].children, i)
                    IN  (h0[child].isLeaf /\ Count(h0, child) >= s_MAX_KEYS) =>
                            LeafSplitShape(h0, path[j + 1].heap, parent, i, child)
    /\ (budget = DeepFill + MaxSteps - 2 * s_CAPACITY /\ m_Size = 2 * s_CAPACITY) =>
          /\ ~nodes[m_Root].isLeaf
          /\ nodes[m_Root].keys = <<s_CAPACITY + 1>>
          /\ Len(nodes[m_Root].children) = 2
          /\ LET l == nodes[m_Root].children[1]
                 r == nodes[m_Root].children[2]
             IN  /\ EntryKeys(nodes[l].entries) = [k \in 1..s_CAPACITY |-> k]
                 /\ EntryKeys(nodes[r].entries) = [k \in 1..s_CAPACITY |-> s_CAPACITY + k]
                 /\ nodes[l].nextLeaf = r /\ nodes[r].prevLeaf = l
                 /\ nodes[l].prevLeaf = NULL /\ nodes[r].nextLeaf = NULL

\* Two inserts after the load: the second one split a full leaf that had a
\* successor, leaving C entries, then the new sibling with C-1, then the
\* former successor.
C23_Witness ==
    /\ budget = MaxSteps - 2
    /\ last.op = "insert"
    /\ m_Size = DeepFill + 1
    /\ \E n \in Leaves(nodes) :
          /\ Len(nodes[n].entries) = s_CAPACITY
          /\ nodes[n].nextLeaf # NULL
          /\ Len(nodes[nodes[n].nextLeaf].entries) = s_CAPACITY - 1
          /\ nodes[nodes[n].nextLeaf].nextLeaf # NULL

\* --------------------------------------------------------- root collapse
\* A tree as the constructor leaves it.
Fresh == nodes = [n \in {1} |-> LeafNode(<<>>, NULL, NULL)] /\ m_Root = 1 /\ m_Size = 0

\* C24: between public operations an internal root has at least one routing
\* key (two children); after 1..2C were inserted and stored keys are removed
\* one by one in any order, the tree shrinks back to a single leaf root with
\* null prevLeaf and nextLeaf: after 2C removes, and whenever no key is left,
\* it is the tree the constructor leaves (an empty leaf root, size() == 0).
C24_ReturnToEmpty ==
    /\ ~nodes[m_Root].isLeaf =>
          Len(nodes[m_Root].keys) >= 1 /\ Len(nodes[m_Root].children) >= 2
    /\ nodes[m_Root].isLeaf =>
          nodes[m_Root].prevLeaf = NULL /\ nodes[m_Root].nextLeaf = NULL
    /\ budget = MaxRemoves - 2 * s_CAPACITY => Fresh
    /\ (budget <= MaxRemoves /\ StoredKeys(nodes, m_Root) = {}) => Fresh

\* ------------------------------------------------------ pre-emptive fill
\* Call j of the descent of a remove is on an internal node in case B whose
\* last child is below C and has no sibling to borrow from: fill merges
\* that child into its left sibling.
LastChildMerged(path, j) ==
    LET h == path[j].heap
        node == path[j].node
        ks == h[node].keys
        idx == FirstNotLess(ks, path[j].key)
    IN  /\ ~h[node].isLeaf
        /\ idx = Len(ks)
        /\ idx > 0
        /\ Count(h, At(h[node].children, idx)) < s_CAPACITY
        /\ Count(h, At(h[node].children, idx - 1)) < s_CAPACITY

\* C25: during any remove, every non-root node the recursive descent enters
\* (in case B, or by the predecessor, successor or merge branch of case A)
\* holds at least C keys/entries when it is entered; after a fill that
\* merges the last child into its left sibling, the descent continues into
\* the merged node, at index i-1.
C25_FillBeforeDescent ==
    \A key \in DOMAIN ref :
        LET path == removeFromNodePath(nodes, m_Root, key)
        IN  /\ \A j \in 2..Len(path) :
                  Count(path[j].heap, path[j].node) >= s_CAPACITY
            /\ \A j \in 1..(Len(path) - 1) :
                  LastChildMerged(path, j) =>
                      LET h == path[j].heap
                          node == path[j].node
                          idx == Len(h[node].keys)
                          left == At(h[node].children, idx - 1)
                          child == At(h[node].children, idx)
                          h1 == path[j + 1].heap
                      IN  /\ path[j + 1].node = left
                          /\ At(h1[node].children, idx - 1) = left
                          /\ Len(h1[node].children) = idx
                          /\ SubtreeEntries(h1, left)
                               = SubtreeEntries(h, left) \o SubtreeEntries(h, child)

\* Right after a remove on a tree of height 3: some remove from here would
\* merge a last child into its left sibling below the root, and some
\* remove would go through case A of an internal node.
C25_Witness ==
    /\ last.op = "remove"
    /\ Height(nodes, m_Root) = 3
    /\ \E key \in DOMAIN ref :
          LET path == removeFromNodePath(nodes, m_Root, key)
          IN  \E j \in 2..(Len(path) - 1) : LastChildMerged(path, j)
    /\ \E key \in DOMAIN ref :
          LET path == removeFromNodePath(nodes, m_Root, key)
          IN  \E j \in 1..(Len(path) - 1) :
                 /\ ~path[j].heap[path[j].node].isLeaf
                 /\ \E i \in 1..Len(path[j].heap[path[j].node].keys) :
                       path[j].heap[path[j].node].keys[i] = path[j].key

\* ----------------------------------------------------- pre-emptive split
\* C26: during any insert, every node insertNonFull is called on holds
\* fewer than 2C-1 keys/entries at the call; after a split the descent
\* continues into the half whose key range contains the inserted key (the
\* right half holds the keys not less than the promoted key, the left half
\* the keys less than it); no node holds more than 2C-1 at any point.
C26_SplitBeforeDescent ==
    \A key \in DOMAIN ref :
        LET path == insertPath(nodes, m_Root, key)
            rootSplit == Count(nodes, m_Root) >= s_MAX_KEYS
            done == insert(nodes, m_Root, key, 1).heap
        IN  /\ \A j \in 1..Len(path) :
                  /\ Count(path[j].heap, path[j].node) < s_MAX_KEYS
                  /\ \A n \in DOMAIN path[j].heap : Count(path[j].heap, n) <= s_MAX_KEYS
            /\ \A n \in DOMAIN done : Count(done, n) <= s_MAX_KEYS
            /\ \A j \in 1..(Len(path) - 1) :
                  LET h0 == path[j].heap
                      h1 == path[j + 1].heap
                      parent == path[j].node
                      split == Len(h1[parent].keys) > Len(h0[parent].keys)
                      i == IF split THEN FirstNotLess(h0[parent].keys, key) ELSE 0
                  IN  (split \/ (j = 1 /\ rootSplit)) =>
                          path[j + 1].node =
                              IF less(key, At(h1[parent].keys, i))
                              THEN At(h1[parent].children, i)
                              ELSE At(h1[parent].children, i + 1)

\* ------------------------------------------------ range forms and search
\* C27: if r = range(low, n) with n >= 1 is non-empty, with first key f and
\* last key l, then range(f, l) returns exactly the same sequence of
\* entries, also when low itself is not stored.
C27_RangeFormsAgree ==
    \A low \in DOMAIN ref, n \in 1..MaxCount :
        LET r == rangeCount(nodes, m_Root, low, n)
        IN  r # <<>> =>
                LET f == At(nodes[r[1].node].entries, r[1].index)[1]
                    l == At(nodes[r[Len(r)].node].entries, r[Len(r)].index)[1]
                IN  range(nodes, m_Root, f, l) = r

\* C29: search(k) finds an entry if and only if range(k, k) returns exactly
\* one entry, and then both refer to the same stored entry.
C29_SearchRangeAgree ==
    \A k \in DOMAIN ref :
        LET p == searchPos(nodes, m_Root, k)
            r == range(nodes, m_Root, k, k)
        IN  /\ p # end <=> Len(r) = 1
            /\ p # end => r = <<p>>

\* --------------------------------------------------- writes and move
Writes == {"writeSearch", "writeIndex", "writeRange"}

\* C28: the references search(k), operator[](k) and a range result hold
\* for a stored key k denote the same stored value: a write through any of
\* them is what search(k) returns afterwards, and it changes no key, no
\* other entry's value, no structure and not size().
C28_WriteThrough ==
    [][last'.op \in Writes =>
          LET pos == searchPos(nodes, m_Root, last'.key)
          IN  /\ pos # end
              /\ nodes' = Assign(nodes, pos, last'.value)
              /\ search(nodes', m_Root', last'.key) = last'.value
              /\ m_Root' = m_Root
              /\ m_Size' = m_Size]_vars

\* The entries of the leaves whose key is none of ks, in leaf order.
OtherEntries(h, root, ks) ==
    SelectSeq(SubtreeEntries(h, root), LAMBDA e : e[1] \notin ks)

\* C30: move(from, to) with from not stored returns false and leaves the
\* tree unchanged; with from stored and to # from it returns true, and
\* afterwards search(from) is not-found, search(to) yields the value stored
\* under from right before the call, and every other entry is unchanged.
C30_Move ==
    [][last'.op = "move" =>
          LET from == last'.key
              to == last'.value
              was == {SubtreeEntries(nodes, m_Root)[i][2] :
                         i \in {j \in 1..NumEntries(nodes, m_Root) :
                                   SubtreeEntries(nodes, m_Root)[j][1] = from}}
          IN  /\ ~Stored(nodes, m_Root, from) =>
                    /\ ~last'.ret
                    /\ nodes' = nodes
                    /\ m_Size' = m_Size
              /\ (Stored(nodes, m_Root, from) /\ to # from) =>
                    /\ last'.ret
                    /\ search(nodes', m_Root', from) = NULL
                    /\ search(nodes', m_Root', to) \in was
                    /\ OtherEntries(nodes', m_Root', {from, to})
                         = OtherEntries(nodes, m_Root, {from, to})]_vars

====
